---------------------------- MODULE Spec2Model ----------------------------
(***************************************************************************)
(* A model of serplint's Linter (src/serplint.py): one analysis run of     *)
(* Linter.lint() over one source file.  The external collaborators         *)
(* (serpent.compile, serpent.parse) are inputs: whether they raise, and    *)
(* the syntax tree, which is revealed node by node as traverse() visits    *)
(* it.  Every action is one handler call of the walk, one iteration of a   *)
(* loop of lint(), or one of its pre-steps.                                *)
(***************************************************************************)
EXTENDS Integers, Sequences, FiniteSets, TLC

(***************************************************************************)
(* Bounds of the model.                                                    *)
(***************************************************************************)
\* number of syntax-tree nodes handed to a handler in one run
MaxNodes == 3

\* the source holds one statement per line: the k-th node the walk hands to
\* a handler stands on line k - 1, as the syntax tree numbers lines
Lines == 0 .. (MaxNodes - 1)
\* character offsets the syntax tree reports (leading whitespace ignored):
\* of an assignment's, keyword's or parameter list's first name, of the
\* index of an element access, of a value or operand, and of the body of a
\* macro
ChTarget == 0
ChIndex == 1
ChValue == 2
ChBody == 3

\* leading whitespace of each source line: a flat file, or a first line
\* with every line after it indented
Layouts == {[ln \in Lines |-> 0], [ln \in Lines |-> IF ln = 0 THEN 0 ELSE 4]}

\* the names the analysed sources use
\* functions are defined in this order, each once
MethodSeq == <<"f", "g">>
Methods == {MethodSeq[i] : i \in 1 .. Len(MethodSeq)}
ParamLists == {<<>>, <<"a">>, <<"a", "b">>, <<"a", "a">>}
AssignTargets == {"a", "self.x", "self"}
\* element accesses that are assigned to: <<base, index>> of base[index]
AccessTargets == {<<"a", "b">>}
RefNames == {"a", "b", "self.x", "self"}
ValueNames == {"a", "1"}
KeywordNames == {"items", "a"}
FieldNames == {"x"}
EventNames == {"a"}
MacroNames == {"b"}
\* a macro's body, a single token
MacroBodies == {"a", "1"}
CallNames == {"send", "b"}
CallArguments == {"a"}
BindNames == {"a", "b", "self.x", "self"}

\* the key of the top-level scope: method_name=None of traverse()
None == "None"
MethodKeys == Methods \cup {None}

(***************************************************************************)
(* Program constants.                                                      *)
(***************************************************************************)
ASSIGNED_TO_ARGUMENT == "E201"
COMPILE_ERROR == "E100"
INVALID_KEYWORD_ARGUMENT == "E202"
PARSE_ERROR == "E101"
UNDEFINED_VARIABLE == "E200"
UNREFERENCED_ASSIGNMENT == "W203"
UNUSED_ARGUMENT == "W202"

GLOBALS == {"block.coinbase", "block.difficulty", "block.gaslimit",
            "block.number", "block.prevhash", "block.timestamp", "msg.gas",
            "msg.sender", "msg.value", "self", "self.balance",
            "self.storage", "tx.gasprice"}

BUILTINS == {"calldatacopy", "calldataload", "div", "log", "return", "send",
             "string", "~invalid"}

BUILTIN_KEYWORD_ARGUMENTS == {"items", "outitems"}

\* the position serpent reports in a compile or parse error:
\* "line L, char C): <msg>", matched by RE_EXCEPTION
ErrLine == 1
ErrChar == 5
ErrMessage == "Invalid argument count"

VARIABLES
    pc,              \* where lint() stands
    code_lines,      \* leading whitespace length of each line of the source
    exit_code,       \* Linter.exit_code
    checks,          \* Linter.checks: the deferred reference checks
    logged_messages, \* Linter.logged_messages
    scope,           \* Linter.scope
    data,            \* Linter.data
    events,          \* Linter.events
    macros,          \* Linter.macros
    methods,         \* Linter.methods
    method_name,     \* the method_name argument of the current traverse()
    nodes,           \* nodes handed to handlers so far
    ci,              \* resolve_checks: index of the next check
    sweep_cur,       \* post-pass sweep: the method whose variables are read
    sweep_done,      \* post-pass sweep: the (method, variable) pairs read
    compile_raised,  \* history: serpent.compile raised a matching message
    unbound_at,      \* history: indexes of checks queued while the name
                     \* had no binding in the function's scope
    unchecked,       \* history: (function, name) read in a skipped node
    arguments        \* history: (function, parameter token) of every
                     \* definition

vars == <<pc, code_lines, exit_code, checks, logged_messages, scope, data,
          events, macros, methods, method_name, nodes, ci, sweep_cur,
          sweep_done, compile_raised, unbound_at, unchecked, arguments>>

(***************************************************************************)
(* Values.                                                                 *)
(***************************************************************************)
NoExitCode == 0 - 1

NoToken == [name |-> "", ln |-> 0, ch |-> 0]

Absent == [type |-> "absent", accessed |-> FALSE, token |-> NoToken]

MkToken(name, ln, ch) == [name |-> name, ln |-> ln, ch |-> ch]

\* the fields of the Linter object, as one record the handlers transform
Self == [exit_code |-> exit_code, checks |-> checks,
         logged_messages |-> logged_messages, scope |-> scope,
         data |-> data, events |-> events, macros |-> macros,
         methods |-> methods]

Commit(s) ==
    /\ exit_code' = s.exit_code
    /\ checks' = s.checks
    /\ logged_messages' = s.logged_messages
    /\ scope' = s.scope
    /\ data' = s.data
    /\ events' = s.events
    /\ macros' = s.macros
    /\ methods' = s.methods

Range(q) == {q[i] : i \in 1 .. Len(q)}

(***************************************************************************)
(* Linter's helpers.                                                       *)
(***************************************************************************)
\* re.match('^[a-z]', value, re.IGNORECASE) on the names the sources use
LetterInitial == {"a", "b", "self", "self.x", "self.f", "self.g", "items",
                  "send", "x", "f", "g"}

IsReference(value) == value \in LetterInitial

\* error[0] == 'E'
ErrorCodes == {COMPILE_ERROR, PARSE_ERROR, UNDEFINED_VARIABLE,
               ASSIGNED_TO_ARGUMENT, INVALID_KEYWORD_ARGUMENT}

Style(error) == [code |-> error,
                 fg |-> IF error \in ErrorCodes THEN "red" ELSE "yellow"]

GetScope(s, m, name) == s.scope[m][name]

Reposition(line, character) ==
    [line |-> line + 1, character |-> character + 1 + code_lines[line]]

\* '{}:{}:{} {} {}'.format(filename, line, character, formatted_code, message)
Format(line, character, formatted_code, message) ==
    [line |-> line, character |-> character, code |-> formatted_code,
     message |-> message]

\* LogMessage without the test for a text already logged
LogMessage_noDedup(s, line, character, error, message, reposition) ==
    LET formatted_code == Style(error)
        at == IF reposition THEN Reposition(line, character)
              ELSE [line |-> line, character |-> character]
        text == Format(at.line, at.character, formatted_code, message)
    IN  [s EXCEPT !.exit_code = 1, !.logged_messages = Append(@, text)]

LogMessage(s, line, character, error, message, reposition) ==
    LET formatted_code == Style(error)
        at == IF reposition THEN Reposition(line, character)
              ELSE [line |-> line, character |-> character]
        text == Format(at.line, at.character, formatted_code, message)
    IN  IF text \in Range(s.logged_messages)
        THEN s
        ELSE [s EXCEPT !.exit_code = 1,
                       !.logged_messages = Append(@, text)]

\* Check marking the binding at once instead of leaving it to
\* resolve_checks
Check_eager(s, token, m) ==
    IF ~IsReference(token.name)
    THEN s
    ELSE LET s1 == [s EXCEPT !.checks =
                       Append(@, [token |-> token, method |-> m])]
         IN  IF token.name \in BindNames
                /\ s.scope[m][token.name].type # "absent"
             THEN [s1 EXCEPT !.scope[m][token.name].accessed = TRUE]
             ELSE s1

Check(s, token, m) ==
    IF ~IsReference(token.name)
    THEN s
    ELSE [s EXCEPT !.checks = Append(@, [token |-> token, method |-> m])]

(***************************************************************************)
(* A node is a leaf token                                                  *)
(*   [kind |-> "token", val, ln, ch],                                      *)
(* an element access base[index]                                           *)
(*   [kind |-> "access", base |-> leaf, index |-> leaf, ln, ch]            *)
(* or a keyword argument                                                   *)
(*   [kind |-> "=", assignee |-> leaf, value |-> node].                    *)
(***************************************************************************)
Leaf(val, ln, ch) == [kind |-> "token", val |-> val, ln |-> ln, ch |-> ch]

Access(base, index) ==
    [kind |-> "access", base |-> base, index |-> index, ln |-> base.ln,
     ch |-> base.ch]

Keyword(assignee, value) ==
    [kind |-> "=", assignee |-> assignee, value |-> value]

\* resolve_name and resolve_access: the Linter after the check of an
\* access's index, and the name
ResolveName(s, node, m) ==
    IF node.kind = "access"
    THEN [s |-> IF IsReference(node.index.val)
                THEN Check(s, MkToken(node.index.val, node.index.ln,
                                      node.index.ch), m)
                ELSE s,
          name |-> node.base.val]
    ELSE [s |-> s, name |-> node.val]

\* AddToScope reporting an assignment to any name already bound
AddToScope_anyBinding(s, m, token, variable_type) ==
    LET r == ResolveName(s, token, m)
        name == r.name
        old == GetScope(r.s, m, name)
        s1 == IF old.type # "absent"
              THEN LogMessage(r.s, token.ln, token.ch, ASSIGNED_TO_ARGUMENT,
                              "Assigned a value to an argument \"" \o name
                                  \o "\"", TRUE)
              ELSE r.s
    IN  [s1 EXCEPT !.scope[m][name] =
            [type |-> variable_type, accessed |-> FALSE,
             token |-> MkToken(name, token.ln, token.ch)]]

AddToScope(s, m, token, variable_type) ==
    LET r == ResolveName(s, token, m)
        name == r.name
        old == GetScope(r.s, m, name)
        s1 == IF old.type = "argument"
              THEN LogMessage(r.s, token.ln, token.ch, ASSIGNED_TO_ARGUMENT,
                              "Assigned a value to an argument \"" \o name
                                  \o "\"", TRUE)
              ELSE r.s
    IN  [s1 EXCEPT !.scope[m][name] =
            [type |-> variable_type, accessed |-> FALSE,
             token |-> MkToken(name, token.ln, token.ch)]]

\* InScope looking the name up in the scope of every function
InScope_anyFunction(s, name, m) ==
    \/ (name \in BindNames
        /\ \E k \in MethodKeys : s.scope[k][name].type # "absent")
    \/ name \in s.data
    \/ name \in s.events
    \/ name \in s.macros
    \/ name \in s.methods
    \/ name \in BUILTINS
    \/ name \in GLOBALS

InScope(s, name, m) ==
    \/ (name \in BindNames /\ s.scope[m][name].type # "absent")
    \/ name \in s.data
    \/ name \in s.events
    \/ name \in s.macros
    \/ name \in s.methods
    \/ name \in BUILTINS
    \/ name \in GLOBALS

Init ==
    /\ pc = "init"
    /\ code_lines \in Layouts
    /\ exit_code = NoExitCode
    /\ checks = <<>>
    /\ logged_messages = <<>>
    /\ scope = [m \in MethodKeys |-> [n \in BindNames |-> Absent]]
    /\ data = {}
    /\ events = {}
    /\ macros = {}
    /\ methods = {}
    /\ method_name = None
    /\ nodes = 0
    /\ ci = 1
    /\ sweep_cur = None
    /\ sweep_done = {}
    /\ compile_raised = FALSE
    /\ unbound_at = {}
    /\ unchecked = {}
    /\ arguments = {}

LintStart ==
    /\ pc = "init"
    /\ pc' = "compile"
    /\ exit_code' = 0
    /\ UNCHANGED <<code_lines, checks, logged_messages, scope, data, events,
                   macros, methods, method_name, nodes, ci, sweep_cur,
                   sweep_done, compile_raised, unbound_at, unchecked,
                   arguments>>

\* serpent.compile(self.code) returns
CompileOk ==
    /\ pc = "compile"
    /\ pc' = "parse"
    /\ UNCHANGED <<code_lines, exit_code, checks, logged_messages, scope,
                   data, events, macros, methods, method_name, nodes, ci,
                   sweep_cur, sweep_done, compile_raised, unbound_at,
                   unchecked, arguments>>

\* CompileRaiseMatched with the reported position passed through the
\* whitespace correction
CompileRaiseMatched_repositioned ==
    /\ pc = "compile"
    /\ Commit(LogMessage(Self, ErrLine, ErrChar, COMPILE_ERROR, ErrMessage,
                         TRUE))
    /\ compile_raised' = TRUE
    /\ pc' = "parse"
    /\ UNCHANGED <<code_lines, method_name, nodes, ci, sweep_cur, sweep_done,
                   unbound_at, unchecked, arguments>>

\* serpent.compile raises; RE_EXCEPTION matches: E100 is logged and lint()
\* goes on to the parse step
CompileRaiseMatched ==
    /\ pc = "compile"
    /\ Commit(LogMessage(Self, ErrLine, ErrChar, COMPILE_ERROR, ErrMessage,
                         FALSE))
    /\ compile_raised' = TRUE
    /\ pc' = "parse"
    /\ UNCHANGED <<code_lines, method_name, nodes, ci, sweep_cur, sweep_done,
                   unbound_at, unchecked, arguments>>

\* serpent.compile raises; RE_EXCEPTION does not match: sys.exit(1)
CompileRaiseUnmatched ==
    /\ pc = "compile"
    /\ pc' = "exit"
    /\ UNCHANGED <<code_lines, exit_code, checks, logged_messages, scope,
                   data, events, macros, methods, method_name, nodes, ci,
                   sweep_cur, sweep_done, compile_raised, unbound_at,
                   unchecked, arguments>>

\* serpent.parse(self.code) returns the syntax tree
ParseOk ==
    /\ pc = "parse"
    /\ pc' = "traverse"
    /\ UNCHANGED <<code_lines, exit_code, checks, logged_messages, scope,
                   data, events, macros, methods, method_name, nodes, ci,
                   sweep_cur, sweep_done, compile_raised, unbound_at,
                   unchecked, arguments>>

\* serpent.parse raises: E101 is logged when RE_EXCEPTION matches, and
\* sys.exit(1) either way
ParseRaise ==
    /\ pc = "parse"
    /\ \E matched \in BOOLEAN :
          Commit(IF matched
                 THEN LogMessage(Self, ErrLine, ErrChar, PARSE_ERROR,
                                 ErrMessage, FALSE)
                 ELSE Self)
    /\ pc' = "exit"
    /\ UNCHANGED <<code_lines, method_name, nodes, ci, sweep_cur, sweep_done,
                   compile_raised, unbound_at, unchecked, arguments>>

(***************************************************************************)
(* The walk.                                                               *)
(***************************************************************************)
\* TraverseTokens gathering the keyword's own name as a reference too
TraverseTokens_checksAssignee(s, node) ==
    IF node.kind = "="
    THEN LET assignee == node.assignee
             s1 == IF assignee.val \notin BUILTIN_KEYWORD_ARGUMENTS
                   THEN LogMessage(s, assignee.ln, assignee.ch,
                                   INVALID_KEYWORD_ARGUMENT,
                                   "Invalid keyword argument \""
                                       \o assignee.val \o "\"", TRUE)
                   ELSE s
         IN  [s |-> s1,
              toks |-> (IF IsReference(assignee.val)
                        THEN <<MkToken(assignee.val, assignee.ln,
                                       assignee.ch)>>
                        ELSE <<>>)
                       \o (IF IsReference(node.value.val)
                           THEN <<MkToken(node.value.val, node.value.ln,
                                          node.value.ch)>>
                           ELSE <<>>)]
    ELSE [s |-> s,
          toks |-> IF IsReference(node.val)
                   THEN <<MkToken(node.val, node.ln, node.ch)>>
                   ELSE <<>>]

\* traverse_tokens: the Linter after its E202 messages, and the tokens
RECURSIVE TraverseTokens(_, _)
TraverseTokens(s, node) ==
    IF node.kind = "="
    THEN LET assignee == node.assignee
             s1 == IF assignee.val \notin BUILTIN_KEYWORD_ARGUMENTS
                   THEN LogMessage(s, assignee.ln, assignee.ch,
                                   INVALID_KEYWORD_ARGUMENT,
                                   "Invalid keyword argument \""
                                       \o assignee.val \o "\"", TRUE)
                   ELSE s
         IN  TraverseTokens(s1, node.value)
    ELSE [s |-> s,
          toks |-> IF IsReference(node.val)
                   THEN <<MkToken(node.val, node.ln, node.ch)>>
                   ELSE <<>>]

RECURSIVE CheckAll(_, _, _)
CheckAll(s, toks, m) ==
    IF toks = <<>> THEN s
    ELSE CheckAll(Check(s, Head(toks), m), Tail(toks), m)

\* gather_tokens followed by check() of every token gathered
SimpleTraversal(s, node, m) ==
    LET r == TraverseTokens(s, node)
    IN  CheckAll(r.s, r.toks, m)

Assignment(s, assignee, value, m) ==
    LET r == ResolveName(s, assignee, m)
        assignee_name == r.name
        s1 == IF IsReference(assignee_name)
              THEN IF assignee_name \in r.s.data
                   THEN AddToScope(r.s, m, assignee, "data_assignment")
                   ELSE AddToScope(r.s, m, assignee, "assignment")
              ELSE r.s
    IN  SimpleTraversal(s1, value, m)

RECURSIVE AddArguments(_, _, _)
AddArguments(s, name, tokens) ==
    IF tokens = <<>> THEN s
    ELSE AddArguments(AddToScope(s, name, Head(tokens), "argument"), name,
                      Tail(tokens))

DefineMethodS(s, name, tokens) ==
    AddArguments([s EXCEPT !.methods = @ \cup {"self." \o name}], name,
                 tokens)

DefineDataS(s, field) == [s EXCEPT !.data = @ \cup {"self." \o field}]

DefineEventS(s, name) == [s EXCEPT !.events = @ \cup {name}]

DefineMacroS(s, name) == [s EXCEPT !.macros = @ \cup {name}]

\* traverse() handed a token instead of a node: the token is checked
TraverseToken(s, node, m) == Check(s, MkToken(node.val, node.ln, node.ch), m)

\* a node whose kind has no handler: analysed only when it names a macro
\* or a method
Unmapped(s, val, node, m) ==
    IF val \in s.macros \cup s.methods
    THEN SimpleTraversal(s, node, m)
    ELSE s

\* one handler call of the walk: the Linter becomes s under function m
Visit(s, m) ==
    /\ Commit(s)
    /\ nodes' = nodes + 1
    /\ unbound_at' = unbound_at \cup
          {i \in (Len(checks) + 1) .. Len(s.checks) :
              ~(s.checks[i].token.name \in BindNames
                /\ s.scope[m][s.checks[i].token.name].type # "absent")}
    /\ UNCHANGED <<pc, code_lines, ci, sweep_cur, sweep_done,
                   compile_raised>>

CanVisit == pc = "traverse" /\ nodes < MaxNodes

\* the line of the node the walk visits now
Ln == nodes

\* an operator, comparison, condition, return, log or mcopy node
TraverseSimple ==
    /\ CanVisit
    /\ \/ \E n \in RefNames :
             Visit(SimpleTraversal(Self, Leaf(n, Ln, ChValue), method_name),
                   method_name)
       \/ \E k \in KeywordNames, v \in ValueNames :
             Visit(SimpleTraversal(Self,
                       Keyword(Leaf(k, Ln, ChTarget), Leaf(v, Ln, ChValue)),
                       method_name), method_name)
    /\ UNCHANGED <<method_name, unchecked, arguments>>

\* an '=' node
TraverseAssignment ==
    /\ CanVisit
    /\ \E v \in ValueNames :
          \/ \E t \in AssignTargets :
                Visit(Assignment(Self, Leaf(t, Ln, ChTarget),
                                 Leaf(v, Ln, ChValue), method_name),
                      method_name)
          \/ \E t \in AccessTargets :
                Visit(Assignment(Self,
                          Access(Leaf(t[1], Ln, ChTarget),
                                 Leaf(t[2], Ln, ChIndex)),
                          Leaf(v, Ln, ChValue), method_name), method_name)
    /\ UNCHANGED <<method_name, unchecked, arguments>>

ParamTokens(params, ln) ==
    [i \in 1 .. Len(params) |->
        Leaf(params[i], ln, IF i = 1 THEN ChTarget ELSE ChValue)]

\* a 'def' node: traverse rebinds method_name for the subtree
TraverseDef ==
    /\ CanVisit
    /\ Cardinality(methods) < Len(MethodSeq)
    /\ \E params \in ParamLists :
          LET name == MethodSeq[Cardinality(methods) + 1] IN
          /\ ("self." \o name) \notin methods
          /\ Visit(DefineMethodS(Self, name, ParamTokens(params, Ln)), name)
          /\ method_name' = name
          /\ arguments' = arguments \cup
                {<<name, MkToken(params[i], Ln,
                                 ParamTokens(params, Ln)[i].ch)>> :
                    i \in 1 .. Len(params)}
    /\ UNCHANGED unchecked

\* the subtree of a 'def' node is finished
LeaveDef ==
    /\ pc = "traverse"
    /\ method_name # None
    /\ method_name' = None
    /\ UNCHANGED <<pc, code_lines, exit_code, checks, logged_messages, scope,
                   data, events, macros, methods, nodes, ci, sweep_cur,
                   sweep_done, compile_raised, unbound_at, unchecked,
                   arguments>>

TraverseData ==
    /\ CanVisit
    /\ \E field \in FieldNames : Visit(DefineDataS(Self, field), method_name)
    /\ UNCHANGED <<method_name, unchecked, arguments>>

TraverseEvent ==
    /\ CanVisit
    /\ \E name \in EventNames : Visit(DefineEventS(Self, name), method_name)
    /\ UNCHANGED <<method_name, unchecked, arguments>>

\* a 'macro' node: the handler returns the body, which traverse walks
\* under the method_name it was called with
TraverseMacro ==
    /\ CanVisit
    /\ \E name \in MacroNames, body \in MacroBodies :
          Visit(TraverseToken(DefineMacroS(Self, name),
                              Leaf(body, Ln, ChBody), method_name),
                method_name)
    /\ UNCHANGED <<method_name, unchecked, arguments>>

\* a node of a kind without a handler, such as a call statement
TraverseUnmapped ==
    /\ CanVisit
    /\ \E val \in CallNames, v \in CallArguments :
          /\ Visit(Unmapped(Self, val, Leaf(v, Ln, ChValue), method_name),
                   method_name)
          /\ unchecked' =
                IF val \in macros \cup methods \/ ~IsReference(v)
                THEN unchecked
                ELSE unchecked \cup {<<method_name, v>>}
    /\ UNCHANGED <<method_name, arguments>>

\* traverse(contract_ast) returns
TraverseDone ==
    /\ pc = "traverse"
    /\ pc' = "resolve"
    /\ ci' = 1
    /\ method_name' = None
    /\ UNCHANGED <<code_lines, exit_code, checks, logged_messages, scope,
                   data, events, macros, methods, nodes, sweep_cur,
                   sweep_done, compile_raised, unbound_at, unchecked,
                   arguments>>

(***************************************************************************)
(* resolve_checks and the post-pass sweep.                                 *)
(***************************************************************************)
\* ResolveOne marking the name's binding in the scope of every function
ResolveOne_allScopes(s, c) ==
    IF ~InScope(s, c.token.name, c.method)
    THEN LogMessage(s, c.token.ln, c.token.ch, UNDEFINED_VARIABLE,
                    "Undefined variable \"" \o c.token.name \o "\"", TRUE)
    ELSE IF c.token.name \in BindNames
         THEN [s EXCEPT !.scope =
                  [k \in MethodKeys |->
                      [n \in BindNames |->
                          IF n = c.token.name /\ @[k][n].type # "absent"
                          THEN [@[k][n] EXCEPT !.accessed = TRUE]
                          ELSE @[k][n]]]]
         ELSE s

\* the body of the loop of resolve_checks
ResolveOne(s, c) ==
    IF ~InScope(s, c.token.name, c.method)
    THEN LogMessage(s, c.token.ln, c.token.ch, UNDEFINED_VARIABLE,
                    "Undefined variable \"" \o c.token.name \o "\"", TRUE)
    ELSE IF c.token.name \in BindNames
            /\ GetScope(s, c.method, c.token.name).type # "absent"
         THEN [s EXCEPT !.scope[c.method][c.token.name].accessed = TRUE]
         ELSE s

ResolveCheck ==
    /\ pc = "resolve"
    /\ ci <= Len(checks)
    /\ Commit(ResolveOne(Self, checks[ci]))
    /\ ci' = ci + 1
    /\ UNCHANGED <<pc, code_lines, method_name, nodes, sweep_cur, sweep_done,
                   compile_raised, unbound_at, unchecked, arguments>>

ResolveDone ==
    /\ pc = "resolve"
    /\ ci > Len(checks)
    /\ pc' = "sweep"
    /\ UNCHANGED <<code_lines, exit_code, checks, logged_messages, scope,
                   data, events, macros, methods, method_name, nodes, ci,
                   sweep_cur, sweep_done, compile_raised, unbound_at,
                   unchecked, arguments>>

\* SweepSkips with the top-level scope swept like a function's
SweepSkips_nothing(method) == FALSE

\* "if not method: continue"
SweepSkips(method) == method = None

\* the body of the inner loop of the sweep
SweepOne(s, method, variable) ==
    LET metadata == s.scope[method][variable]
    IN  IF metadata.accessed
        THEN s
        ELSE IF metadata.type = "argument"
        THEN LogMessage(s, metadata.token.ln, metadata.token.ch,
                        UNUSED_ARGUMENT,
                        "Unused argument \"" \o variable \o "\"", TRUE)
        ELSE IF metadata.type = "assignment" /\ variable \notin GLOBALS
        THEN LogMessage(s, metadata.token.ln, metadata.token.ch,
                        UNREFERENCED_ASSIGNMENT,
                        "Unreferenced assignment \"" \o variable \o "\"",
                        TRUE)
        ELSE s

SweepPending(method) ==
    {v \in BindNames :
        scope[method][v].type # "absent" /\ <<method, v>> \notin sweep_done}

\* scope.items() and variables.items() are read in the dictionaries' order,
\* which is any order; the variables of one method are read together, and
\* a skipped method's variables are not read at all
SweepStep ==
    /\ pc = "sweep"
    /\ \E method \in MethodKeys :
          /\ SweepPending(method) # {}
          /\ SweepPending(sweep_cur) # {} => method = sweep_cur
          /\ IF SweepSkips(method)
             THEN /\ Commit(Self)
                  /\ sweep_done' = sweep_done \cup
                        {<<method, v>> : v \in SweepPending(method)}
             ELSE \E variable \in SweepPending(method) :
                     /\ Commit(SweepOne(Self, method, variable))
                     /\ sweep_done' = sweep_done \cup {<<method, variable>>}
          /\ sweep_cur' = method
    /\ UNCHANGED <<pc, code_lines, method_name, nodes, ci, compile_raised,
                   unbound_at, unchecked, arguments>>

\* return self.exit_code
SweepDone ==
    /\ pc = "sweep"
    /\ \A method \in MethodKeys : SweepPending(method) = {}
    /\ pc' = "return"
    /\ sweep_cur' = None
    /\ UNCHANGED <<code_lines, exit_code, checks, logged_messages, scope,
                   data, events, macros, methods, method_name, nodes, ci,
                   sweep_done, compile_raised, unbound_at, unchecked,
                   arguments>>

Next ==
    \/ LintStart
    \/ CompileOk
    \/ CompileRaiseMatched
    \/ CompileRaiseUnmatched
    \/ ParseOk
    \/ ParseRaise
    \/ TraverseSimple
    \/ TraverseAssignment
    \/ TraverseDef
    \/ LeaveDef
    \/ TraverseData
    \/ TraverseEvent
    \/ TraverseMacro
    \/ TraverseUnmapped
    \/ TraverseDone
    \/ ResolveCheck
    \/ ResolveDone
    \/ SweepStep
    \/ SweepDone

Spec == Init /\ [][Next]_vars

(***************************************************************************)
(* The properties.  A diagnostic is written out as the text the run shows: *)
(* the 1-based line, the 1-based column with the line's leading whitespace *)
(* added back, the code in its colour, and the message.                    *)
(***************************************************************************)
Shown(code, colour, ln, ch, message) ==
    [line |-> ln + 1, character |-> ch + 1 + code_lines[ln],
     code |-> [code |-> code, fg |-> colour], message |-> message]

CountOf(q, x) == Cardinality({i \in 1 .. Len(q) : q[i] = x})

\* the diagnostics of the run whose code is `code` and whose message is
\* `message`, at any position
Emitted(code, message) ==
    {i \in 1 .. Len(logged_messages) :
        /\ logged_messages[i].code.code = code
        /\ logged_messages[i].message = message}

ErrorClass == {"E100", "E101", "E200", "E201", "E202"}

AllRegistries == data \cup events \cup macros \cup methods

\* C1: a run that reaches the end of lint() returns 0 exactly when no
\* error-class diagnostic (a code starting with E) was emitted; warnings
\* alone leave the status 0.
C1_ExitStatusZeroIffNoError ==
    pc = "return" =>
        (exit_code = 0 <=>
            \A i \in 1 .. Len(logged_messages) :
                logged_messages[i].code.code \notin ErrorClass)

Bound(m, n) == n \in BindNames /\ scope[m][n].type # "absent"

NoRegistryHolds(n) == n \notin AllRegistries \cup BUILTINS \cup GLOBALS

UndefinedShown(token) ==
    Shown("E200", "red", token.ln, token.ch,
          "Undefined variable \"" \o token.name \o "\"")

\* C3 (as claimed): a reference the walk visits while its name has no
\* binding in the function, the name being in no registry, builtins or
\* globals, yields exactly one E200 at its position, a later binding or not.
C3_EarlyReferenceYieldsE200 ==
    pc \in {"sweep", "return"} =>
        \A i \in unbound_at :
            NoRegistryHolds(checks[i].token.name) =>
                CountOf(logged_messages, UndefinedShown(checks[i].token)) = 1

\* C3 (amended): references are resolved after the whole walk.  A
\* reference to n in f, n in no registry, builtins or globals, yields
\* exactly one E200 at its position when n has no binding in f's Scope at
\* the end of the walk; and every E200 of the run stands for such a
\* reference, so a reference whose name f binds later in the walk yields
\* none.
C3_UnboundReferenceYieldsE200 ==
    pc \in {"sweep", "return"} =>
        /\ \A i \in 1 .. Len(checks) :
              (/\ NoRegistryHolds(checks[i].token.name)
               /\ ~Bound(checks[i].method, checks[i].token.name))
              => CountOf(logged_messages, UndefinedShown(checks[i].token)) = 1
        /\ \A j \in 1 .. Len(logged_messages) :
              logged_messages[j].code.code = "E200" =>
                  \E i \in 1 .. Len(checks) :
                      /\ logged_messages[j] = UndefinedShown(checks[i].token)
                      /\ NoRegistryHolds(checks[i].token.name)
                      /\ ~Bound(checks[i].method, checks[i].token.name)

\* a finished run with a reference bound only later in the walk, which
\* yields no E200, and a reference never bound, which yields one
C3_Witness ==
    /\ pc = "return"
    /\ \E i \in unbound_at :
          /\ Bound(checks[i].method, checks[i].token.name)
          /\ NoRegistryHolds(checks[i].token.name)
          /\ CountOf(logged_messages, UndefinedShown(checks[i].token)) = 0
    /\ \E i \in unbound_at :
          /\ ~Bound(checks[i].method, checks[i].token.name)
          /\ NoRegistryHolds(checks[i].token.name)
          /\ CountOf(logged_messages, UndefinedShown(checks[i].token)) = 1

NeverChecked(n) == \A i \in 1 .. Len(checks) : checks[i].token.name # n

NeverRead(n) ==
    /\ NeverChecked(n)
    /\ \A m \in MethodKeys : <<m, n>> \notin unchecked

UnreferencedText(n) == "Unreferenced assignment \"" \o n \o "\""

\* C4 (as claimed): a top-level assignment to a name never read yields
\* exactly one W203 by the end of the run, and none when the name is a
\* global identifier.
C4_TopLevelAssignmentWarned ==
    pc = "return" =>
        \A n \in BindNames :
            (scope[None][n].type = "assignment" /\ NeverRead(n)) =>
                Cardinality(Emitted("W203", UnreferencedText(n))) =
                    IF n \in GLOBALS THEN 0 ELSE 1

\* C4 (amended): the post-pass sweep skips the top-level scope, so a
\* top-level assignment yields no W203, read or not, global identifier or
\* not.  Every W203 of the run stands, at the binding's position, for a
\* plain assignment binding of a named function that no check marked and
\* whose name is no global identifier; and each such binding whose name is
\* never checked in its function yields exactly one W203.
C4_TopLevelNeverWarned ==
    /\ \A j \in 1 .. Len(logged_messages) :
          logged_messages[j].code.code = "W203" =>
              \E m \in Methods, n \in BindNames :
                  /\ scope[m][n].type = "assignment"
                  /\ ~scope[m][n].accessed
                  /\ n \notin GLOBALS
                  /\ logged_messages[j] =
                        Shown("W203", "yellow", scope[m][n].token.ln,
                              scope[m][n].token.ch, UnreferencedText(n))
    /\ pc = "return" =>
          \A m \in Methods, n \in BindNames :
              (/\ scope[m][n].type = "assignment"
               /\ n \notin GLOBALS
               /\ \A i \in 1 .. Len(checks) :
                     ~(checks[i].method = m /\ checks[i].token.name = n))
              => CountOf(logged_messages,
                         Shown("W203", "yellow", scope[m][n].token.ln,
                               scope[m][n].token.ch, UnreferencedText(n))) = 1

\* a finished run with an unread top-level assignment and no W203 for it,
\* and an unread assignment in a function with its W203
C4_Witness ==
    /\ pc = "return"
    /\ \E n \in BindNames :
          /\ scope[None][n].type = "assignment"
          /\ n \notin GLOBALS
          /\ NeverRead(n)
          /\ Emitted("W203", UnreferencedText(n)) = {}
    /\ \E m \in Methods, n \in BindNames :
          /\ scope[m][n].type = "assignment"
          /\ Emitted("W203", UnreferencedText(n)) # {}

\* C5: of every function definition, a parameter p never read in the body
\* (assigned there or not) yields exactly one W202, and a parameter read at
\* least once in the body yields none.  (Stated for parameter names that
\* only one function declares, so that the W202 is that function's.)
C5_UnusedArgumentWarned ==
    pc = "return" =>
        \A a \in arguments :
            LET f == a[1]
                p == a[2].name
                read ==
                    \/ \E i \in 1 .. Len(checks) :
                          checks[i].method = f /\ checks[i].token.name = p
                    \/ <<f, p>> \in unchecked
            IN  (\A b \in arguments : b[2].name = p => b[1] = f) =>
                    Cardinality(Emitted("W202",
                        "Unused argument \"" \o p \o "\"")) =
                            IF read THEN 0 ELSE 1

AssignedText(n) == "Assigned a value to an argument \"" \o n \o "\""

AssignedShown(token) ==
    Shown("E201", "red", token.ln, token.ch, AssignedText(token.name))

\* C6: a step that rebinds, by an assignment in f, a name bound in f as an
\* argument leaves exactly one E201 at the assignment target's position in
\* the diagnostics; every E201 a step adds is for a name that is an
\* argument binding of the current function at that moment (bound so
\* before the step, or by the same parameter list, which then names it
\* twice); and no E201 text stands twice in the diagnostics.
C6_AssignedToArgument ==
    [][/\ \A m \in MethodKeys, n \in BindNames :
             (/\ scope[m][n].type = "argument"
              /\ scope'[m][n].type \in {"assignment", "data_assignment"})
             => CountOf(logged_messages',
                        AssignedShown(scope'[m][n].token)) = 1
       /\ \A j \in (Len(logged_messages) + 1) .. Len(logged_messages') :
             logged_messages'[j].code.code = "E201" =>
                 \E n \in BindNames :
                     /\ method_name' \in MethodKeys
                     /\ logged_messages'[j] =
                           AssignedShown(scope'[method_name'][n].token)
                     /\ \/ scope[method_name'][n].type = "argument"
                        \/ Cardinality({a \in arguments' \ arguments :
                               a[1] = method_name' /\ a[2].name = n}) = 2
       /\ \A j \in 1 .. Len(logged_messages') :
             logged_messages'[j].code.code = "E201" =>
                 CountOf(logged_messages', logged_messages'[j]) = 1
      ]_vars

\* a finished run in which a parameter was assigned twice: one E201, at
\* the first assignment, and none at the position of the second
C6_Witness ==
    /\ pc = "return"
    /\ \E a \in arguments :
          /\ scope[a[1]][a[2].name].type = "assignment"
          /\ Cardinality(Emitted("E201", AssignedText(a[2].name))) = 1
          /\ AssignedShown(scope[a[1]][a[2].name].token)
                \notin Range(logged_messages)

\* C7: a name declared as a data field anywhere in the source, assigned in
\* a function and never read, yields no W203, wherever the declaration
\* stands relative to the assignment.
C7_DataFieldNeverWarned ==
    pc = "return" =>
        \A n \in data \cap BindNames :
            ((\E m \in Methods : Bound(m, n)) /\ NeverRead(n)) =>
                Emitted("W203", UnreferencedText(n)) = {}

InvalidKeywordShown(k, ln, ch) ==
    Shown("E202", "red", ln, ch, "Invalid keyword argument \"" \o k \o "\"")

\* C8: wherever the walk stands, analysing a keyword argument 'k = v'
\* leaves the diagnostics unchanged when k is items or outitems, and
\* otherwise leaves exactly one E202 at k's position in them, adding
\* nothing else; it queues a check of v when v is an identifier and queues
\* nothing for k; and it binds nothing.
C8_KeywordArguments ==
    pc = "traverse" =>
        \A ln \in {Ln} \cap Lines, k \in KeywordNames, v \in ValueNames :
            LET r == SimpleTraversal(Self,
                         Keyword(Leaf(k, ln, ChTarget), Leaf(v, ln, ChValue)),
                         method_name)
                e == InvalidKeywordShown(k, ln, ChTarget)
            IN  /\ IF k \in {"items", "outitems"}
                   THEN r.logged_messages = logged_messages
                   ELSE /\ CountOf(r.logged_messages, e) = 1
                        /\ r.logged_messages \in
                              {logged_messages, Append(logged_messages, e)}
                /\ r.checks =
                      IF IsReference(v)
                      THEN Append(checks, [token |-> MkToken(v, ln, ChValue),
                                           method |-> method_name])
                      ELSE checks
                /\ r.scope = scope

\* a finished run that analysed a keyword argument with an unknown name:
\* its E202 is there, its value was checked, its name never was
C8_Witness ==
    /\ pc = "return"
    /\ \E ln \in Lines, k \in KeywordNames :
          /\ InvalidKeywordShown(k, ln, ChTarget) \in Range(logged_messages)
          /\ \E i \in 1 .. Len(checks) :
                checks[i].token.ln = ln /\ checks[i].token.ch = ChValue
    /\ \A i \in 1 .. Len(checks) : checks[i].token.ch # ChTarget

NoDuplicates(q) == \A i, j \in 1 .. Len(q) : i # j => q[i] # q[j]

\* C9: every step keeps the diagnostics it found and adds only at the end,
\* no text ever stands twice, and a step that adds nothing leaves the
\* status as it was; the one log_message call of a resolution step, made
\* for a name out of scope, leaves list and status unchanged when its text
\* is already there and otherwise appends exactly that text.
C9_NoDuplicateDiagnostics ==
    [][/\ Len(logged_messages') >= Len(logged_messages)
       /\ SubSeq(logged_messages', 1, Len(logged_messages)) = logged_messages
       /\ NoDuplicates(logged_messages')
       /\ (logged_messages' = logged_messages /\ pc # "init")
             => exit_code' = exit_code
       /\ pc \in {"compile", "parse", "resolve", "sweep"}
             => Len(logged_messages') <= Len(logged_messages) + 1
       /\ (/\ pc = "resolve"
           /\ ci <= Len(checks)
           /\ NoRegistryHolds(checks[ci].token.name)
           /\ ~Bound(checks[ci].method, checks[ci].token.name))
          => IF UndefinedShown(checks[ci].token) \in Range(logged_messages)
             THEN logged_messages' = logged_messages
             ELSE logged_messages' =
                      Append(logged_messages, UndefinedShown(checks[ci].token))
      ]_vars

\* a finished run in which the same undefined reference was resolved twice
\* and shown once
C9_Witness ==
    /\ pc = "return"
    /\ \E i, j \in 1 .. Len(checks) :
          /\ i < j
          /\ checks[i].token = checks[j].token
          /\ NoRegistryHolds(checks[i].token.name)
          /\ ~Bound(checks[i].method, checks[i].token.name)
          /\ ~Bound(checks[j].method, checks[j].token.name)
          /\ CountOf(logged_messages, UndefinedShown(checks[i].token)) = 1

\* C10: a flag that is true stays true; a binding that a step creates or
\* replaces has its flag false; and a flag becomes true only in the
\* resolution step of a check of that name under that function, the name
\* being bound there.
C10_ReferencedFlag ==
    [][\A m \in MethodKeys, n \in BindNames :
          /\ scope[m][n].accessed => scope'[m][n].accessed
          /\ (/\ scope'[m][n].type # "absent"
              /\ \/ scope[m][n].type # scope'[m][n].type
                 \/ scope[m][n].token # scope'[m][n].token)
             => ~scope'[m][n].accessed
          /\ (~scope[m][n].accessed /\ scope'[m][n].accessed)
             => /\ pc = "resolve"
                /\ ci <= Len(checks)
                /\ checks[ci].method = m
                /\ checks[ci].token.name = n
                /\ Bound(m, n)
      ]_vars

\* a finished run in which a parameter was read, then assigned, and the
\* binding the assignment made carries the flag
C10_Witness ==
    /\ pc = "return"
    /\ \E a \in arguments :
          /\ scope[a[1]][a[2].name].type = "assignment"
          /\ scope[a[1]][a[2].name].accessed
          /\ a[1] = checks[1].method
          /\ a[2].name = checks[1].token.name
          /\ checks[1].token.ln # scope[a[1]][a[2].name].token.ln

\* C11: in every state, a canonical name that is bound in a function's
\* Scope and that stands in one of the registries (data, events, macros,
\* methods) is bound with kind data_assignment; no argument or assignment
\* binding coexists with a registry entry of its name.
C11_RegistryNamesBoundAsData ==
    \A m \in Methods, n \in BindNames :
        (Bound(m, n) /\ n \in AllRegistries) =>
            scope[m][n].type = "data_assignment"

\* C12: scopes of different functions are isolated.  The resolution step of
\* a check queued under function f changes no binding but the one of the
\* checked name in f's own Scope, and that one only by setting its
\* referenced flag; a name that f does not bind and that is in no registry,
\* builtins or globals has its E200 after the step, whatever other
\* functions bind; and a reference in the body of a macro is queued under
\* the function that encloses the macro declaration.
C12_ScopesIsolated ==
    [][/\ (pc = "resolve" /\ ci' # ci) =>
              /\ \A m \in MethodKeys, n \in BindNames :
                    scope'[m][n] # scope[m][n] =>
                        /\ m = checks[ci].method
                        /\ n = checks[ci].token.name
                        /\ scope[m][n].type # "absent"
                        /\ scope'[m][n] =
                              [scope[m][n] EXCEPT !.accessed = TRUE]
              /\ (/\ NoRegistryHolds(checks[ci].token.name)
                  /\ ~Bound(checks[ci].method, checks[ci].token.name))
                 => UndefinedShown(checks[ci].token)
                        \in Range(logged_messages')
       /\ \A i \in (Len(checks) + 1) .. Len(checks') :
              checks'[i].token.ch = ChBody =>
                  checks'[i].method = method_name]_vars

\* a finished run in which the body of a macro declared inside function g
\* refers to a name that only another function f binds: the reference
\* counts for g and yields E200, and f's binding is left unreferenced
C12_Witness ==
    /\ pc = "return"
    /\ \E i \in 1 .. Len(checks) :
          /\ checks[i].token.ch = ChBody
          /\ checks[i].method \in Methods
          /\ NoRegistryHolds(checks[i].token.name)
          /\ ~Bound(checks[i].method, checks[i].token.name)
          /\ UndefinedShown(checks[i].token) \in Range(logged_messages)
          /\ \E f \in Methods \ {checks[i].method} :
                /\ Bound(f, checks[i].token.name)
                /\ ~scope[f][checks[i].token.name].accessed

=============================================================================
